---------------------------- MODULE Spec2Model ----------------------------
(* Lawns & Laundry: the client-side session store (auth), the page        *)
(* controller that runs on every page load, and the login, signup and     *)
(* quest-post form handlers, the password toggles and the profile menu of *)
(* assets/js/script.js, for one browser tab; SpecTabs adds the writes of  *)
(* other tabs to the shared localStorage.                                 *)
(*                                                                        *)
(* JavaScript strings are sequences of one-character strings; a pathname  *)
(* is the sequence of its segments; an href is a sequence of segments     *)
(* that starts with "/" when it is absolute.                              *)
EXTENDS Naturals, Sequences, FiniteSets, TLC

VARIABLES
  storageAvailable,  \* FALSE: every localStorage/sessionStorage access throws
  localStorage,      \* function: the keys present -> their string values
  sessionStorage,    \* same, the per-tab store
  location,          \* [pathname, search]: search is the "return" parameter
  pc,                \* "loading": a navigation is pending; "ready": page is up
  handlers,          \* the event handlers the current page load attached
  msg,               \* the .error/.success paragraph in the page's form
  questFields,       \* values of #questTitle, #questBudget, #questDesc
  checkmark,         \* where #successCheckmark is: absent/page/message/detached
  menuOpen,          \* profile menu has class "open"
  timer,             \* the signup handler's setTimeout is pending
  inputType,         \* type attribute of each password field that has a toggle
  btnText,           \* text of each .pwd-toggle button, by its data-for
  ev,                \* history: the last operation, its inputs and outcome
  redirects,         \* history: automatic redirects since the last logout
  trip               \* history: phase of a guarded-link round trip

vars == <<storageAvailable, localStorage, sessionStorage, location, pc, handlers,
          msg, questFields, checkmark, menuOpen, timer, inputType, btnText,
          ev, redirects, trip>>

-----------------------------------------------------------------------------
(* Bounds *)

MaxNameLen == 2
MaxPwdLen == 6
MaxCount == 3

-----------------------------------------------------------------------------
(* Strings *)

Whitespace == {" ", "\t", "\n"}

RECURSIVE TrimStart(_)
TrimStart(s) ==
  IF s # <<>> /\ Head(s) \in Whitespace THEN TrimStart(Tail(s)) ELSE s

RECURSIVE TrimEnd(_)
TrimEnd(s) ==
  IF s # <<>> /\ s[Len(s)] \in Whitespace THEN TrimEnd(SubSeq(s, 1, Len(s) - 1)) ELSE s

Trim(s) == TrimEnd(TrimStart(s))

\* JavaScript truthiness of a string
Truthy(s) == s # <<>>

RECURSIVE JSONEscape(_)
JSONEscape(s) ==
  IF s = <<>> THEN <<>>
  ELSE (IF Head(s) \in {"\"", "\\"} THEN <<"\\", Head(s)>> ELSE <<Head(s)>>)
       \o JSONEscape(Tail(s))

\* JSON.stringify({ username: u })
JSONstringify(user) ==
  <<"{", "\"", "u", "s", "e", "r", "n", "a", "m", "e", "\"", ":", "\"">>
    \o JSONEscape(user.username) \o <<"\"", "}">>

RECURSIVE Repeat(_, _)
Repeat(c, n) == IF n = 0 THEN <<>> ELSE <<c>> \o Repeat(c, n - 1)

RECURSIVE StringsUpTo(_, _)
StringsUpTo(alphabet, n) ==
  IF n = 0 THEN {<<>>}
  ELSE LET shorter == StringsUpTo(alphabet, n - 1)
       IN shorter \cup {s \o <<c>> : s \in shorter, c \in alphabet}

-----------------------------------------------------------------------------
(* Web Storage *)

NoStorage == [k \in {} |-> <<>>]

hasItem(store, key) == key \in DOMAIN store

setItem(store, key, value) ==
  [k \in DOMAIN store \cup {key} |-> IF k = key THEN value ELSE store[k]]

removeItem(store, key) == [k \in DOMAIN store \ {key} |-> store[k]]

-----------------------------------------------------------------------------
(* routes, pathnames and hrefs *)

routes ==
  [home      |-> <<"/", "index.html">>,
   login     |-> <<"/", "pages", "auth", "login.html">>,
   signup    |-> <<"/", "pages", "auth", "signup.html">>,
   post      |-> <<"/", "pages", "questgiver", "postquest.html">>,
   questview |-> <<"/", "pages", "quests", "questBoard.html">>]

RECURSIVE Normalize(_, _)
Normalize(dir, segs) ==
  IF segs = <<>> THEN dir
  ELSE IF Head(segs) = ".."
       THEN Normalize(IF dir = <<>> THEN <<>> ELSE SubSeq(dir, 1, Len(dir) - 1), Tail(segs))
       ELSE Normalize(Append(dir, Head(segs)), Tail(segs))

\* the pathname that assigning href to location.href leads to, from pathname base
Resolve(base, href) ==
  IF href # <<>> /\ Head(href) = "/"
  THEN Normalize(<<>>, Tail(href))
  ELSE Normalize(SubSeq(base, 1, Len(base) - 1), href)

\* location.pathname.split("/").pop()
CurrentPage(pathname) == IF pathname = <<>> THEN "" ELSE pathname[Len(pathname)]

\* location.pathname.includes('/pages/')
IncludesPages(pathname) ==
  \E i \in 1..(Len(pathname) - 1) : pathname[i] = "pages"

\* location.pathname.includes('/pages/auth/')
IncludesPagesAuth(pathname) ==
  \E i \in 1..(Len(pathname) - 2) : pathname[i] = "pages" /\ pathname[i + 1] = "auth"

NoParam == [has |-> FALSE, val |-> <<>>]
Param(v) == [has |-> TRUE, val |-> v]

\* the pages of the site, each of which loads script.js
SitePages ==
  {<<"index.html">>, <<"services.html">>,
   <<"pages", "auth", "login.html">>, <<"pages", "auth", "signup.html">>,
   <<"pages", "quests", "questBoard.html">>, <<"pages", "quests", "guild.html">>,
   <<"pages", "questgiver", "postquest.html">>,
   <<"pages", "dashboard", "accountSummary.html">>,
   <<"pages", "dashboard", "settings.html">>,
   <<"admin", "admin.html">>}


\* the elements of the markup that script.js looks up, per page
HasElement(pathname, id) ==
  /\ pathname \in SitePages
  /\ CASE id \in {"login_link", "postAQuest"} -> TRUE
       [] id = "adminLogout" -> CurrentPage(pathname) = "admin.html"
       [] id = "login-form"  -> CurrentPage(pathname) = "login.html"
       [] id = "signupForm"  -> CurrentPage(pathname) = "signup.html"
       [] id = "questForm"   -> CurrentPage(pathname) = "postquest.html"
       [] id = "ProfileMenu" -> CurrentPage(pathname) = "questBoard.html"
       [] OTHER -> FALSE

-----------------------------------------------------------------------------
(* auth *)

storageKey == "ll_auth_user"
redirectKey == "ll_redirected_questview"

AuthLogin(local, user) == setItem(local, storageKey, JSONstringify(user))

\* variants of logout that leave one of the two keys
AuthLogoutKeepsUser(local, session) ==
  [local |-> local, session |-> removeItem(session, redirectKey)]

AuthLogoutKeepsFlag(local, session) ==
  [local |-> removeItem(local, storageKey), session |-> session]

AuthLogout(local, session) ==
  [local |-> removeItem(local, storageKey), session |-> removeItem(session, redirectKey)]

isLoggedIn(local) == hasItem(local, storageKey)

alreadyRedirected(session) ==
  hasItem(session, redirectKey) /\ session[redirectKey] = <<"1">>

RedirectExcluded(pathname) ==
  CurrentPage(pathname) = "questBoard.html" \/ CurrentPage(pathname) = "admin.html"

\* variant: the flag is written but never read
RedirectEveryLoad(local, session, pathname) ==
  IF ~isLoggedIn(local) \/ RedirectExcluded(pathname)
  THEN [go |-> FALSE, session |-> session, href |-> <<>>]
  ELSE [go |-> TRUE, session |-> setItem(session, redirectKey, <<"1">>),
        href |-> <<"questBoard.html">>]

\* go: whether it navigates; session: sessionStorage afterwards
redirectToQuestOnce(local, session, pathname) ==
  IF ~isLoggedIn(local) THEN [go |-> FALSE, session |-> session, href |-> <<>>]
  ELSE IF alreadyRedirected(session) \/ RedirectExcluded(pathname)
       THEN [go |-> FALSE, session |-> session, href |-> <<>>]
       ELSE [go |-> TRUE, session |-> setItem(session, redirectKey, <<"1">>),
             href |-> <<"questBoard.html">>]

-----------------------------------------------------------------------------
(* page state *)

NoMsg == [type |-> "none", text |-> "", checkmark |-> FALSE]
Message(text, type) == [type |-> type, text |-> text, checkmark |-> FALSE]

\* the default values form.reset() restores
DefaultQuestFields == [title |-> <<>>, budget |-> <<>>, description |-> <<>>]

\* the .pwd-toggle buttons of a page, each named by its data-for attribute,
\* the id of a password field of that page
PwdToggles(pathname) ==
  CASE CurrentPage(pathname) = "login.html" -> {"password"}
    [] CurrentPage(pathname) = "signup.html" -> {"password", "confirm-password"}
    [] OTHER -> {}

\* a page without toggles, or no page yet
NoToggles == [f \in {} |-> ""]

\* the page as served: the fields masked, the buttons reading "Show"
MarkupInputType(pathname) == [f \in PwdToggles(pathname) |-> "password"]
MarkupBtnText(pathname) == [f \in PwdToggles(pathname) |-> "Show"]

\* location.href = href (or the default action of a link to href): the page
\* is left and its DOM, handlers and timers with it
Navigate(href, search) ==
  /\ location' = [pathname |-> Resolve(location.pathname, href), search |-> search]
  /\ pc' = "loading"
  /\ handlers' = {}
  /\ msg' = NoMsg
  /\ questFields' = DefaultQuestFields
  /\ checkmark' = "absent"
  /\ menuOpen' = FALSE
  /\ timer' = FALSE
  /\ inputType' = NoToggles
  /\ btnText' = NoToggles

PageUnchanged ==
  UNCHANGED <<location, pc, handlers, questFields, checkmark, menuOpen, timer,
              inputType, btnText>>

Min(a, b) == IF a < b THEN a ELSE b

-----------------------------------------------------------------------------
(* inputs *)

AdminUser == <<"a", "d", "m", "i", "n">>
AdminPass == <<"a", "d", "m", "i", "n", "1", "2", "3">>

UsernameInputs ==
  StringsUpTo({" ", "b"}, MaxNameLen) \cup {AdminUser, <<" ">> \o AdminUser}

LoginPasswordInputs == {<<>>, <<" ">>, <<"p">>, AdminPass}

ReturnParams == {NoParam, Param(<<>>), Param(routes.post), Param(routes.home)}

-----------------------------------------------------------------------------
(* initial states *)

InitPage ==
  /\ location \in [pathname : SitePages, search : {NoParam}]
  /\ pc = "loading"
  /\ handlers = {}
  /\ msg = NoMsg
  /\ questFields = DefaultQuestFields
  /\ checkmark = "absent"
  /\ menuOpen = FALSE
  /\ timer = FALSE
  /\ inputType = NoToggles
  /\ btnText = NoToggles
  /\ ev = [op |-> "init"]
  /\ redirects = 0
  /\ trip = 0

\* a new tab: sessionStorage is empty, localStorage may hold an earlier login
Init ==
  /\ storageAvailable = TRUE
  /\ localStorage \in {NoStorage, AuthLogin(NoStorage, [username |-> <<"b">>])}
  /\ sessionStorage = NoStorage
  /\ InitPage

\* the same, in a browser that may have storage disabled
InitEnv ==
  /\ storageAvailable \in BOOLEAN
  /\ localStorage \in
       IF storageAvailable
       THEN {NoStorage, AuthLogin(NoStorage, [username |-> <<"b">>])}
       ELSE {NoStorage}
  /\ sessionStorage = NoStorage
  /\ InitPage

-----------------------------------------------------------------------------
(* navigation by the user and the page load *)

\* the user follows a plain link or enters the address of a page
Visit(pathname, search) ==
  /\ pc = "ready"
  /\ search # NoParam => CurrentPage(pathname) = "login.html"
  /\ Navigate(<<"/">> \o pathname, search)
  /\ ev' = [op |-> "visit"]
  /\ trip' = 0
  /\ UNCHANGED <<storageAvailable, localStorage, sessionStorage, redirects>>

\* handlers that setupPageSpecificFeatures and setupQuestViewCTA attach
PageHandlers(pathname) ==
  {h \in {"login-form", "signupForm", "questForm", "adminLogout", "ProfileMenu"} :
     HasElement(pathname, h)}
  \cup (IF PwdToggles(pathname) # {} THEN {"pwd-toggle"} ELSE {})

\* history: what started the navigation that a page load completes
Cause == IF ev.op = "login" THEN ev.outcome ELSE ev.op

\* DOMContentLoaded: setupGlobalUI, then setupPageSpecificFeatures
PageLoad ==
  /\ pc = "loading"
  /\ trip' = (CASE trip = 1 -> 1 [] trip = 2 -> 3 [] OTHER -> 0)
  /\ UNCHANGED <<storageAvailable, localStorage>>
  /\ IF location.pathname \notin SitePages
     THEN \* no such page: nothing runs
          /\ pc' = "ready"
          /\ ev' = [op |-> "load", ran |-> FALSE, threw |-> FALSE, cause |-> Cause,
                    redirected |-> FALSE]
          /\ UNCHANGED <<sessionStorage, location, handlers, msg, questFields,
                         checkmark, menuOpen, timer, inputType, btnText, redirects>>
     ELSE IF ~storageAvailable
     THEN \* auth.isLoggedIn() throws in setupGlobalUI: the listener ends there
          /\ pc' = "ready"
          /\ handlers' = {h \in {"ProfileMenu"} : HasElement(location.pathname, h)}
          /\ ev' = [op |-> "load", ran |-> TRUE, threw |-> TRUE, cause |-> Cause,
                    redirected |-> FALSE]
          /\ inputType' = MarkupInputType(location.pathname)
          /\ btnText' = MarkupBtnText(location.pathname)
          /\ UNCHANGED <<sessionStorage, location, msg, questFields,
                         checkmark, menuOpen, timer, redirects>>
     ELSE LET loggedIn == isLoggedIn(localStorage)
              r == redirectToQuestOnce(localStorage, sessionStorage, location.pathname)
          IN /\ sessionStorage' = r.session
             /\ ev' = [op |-> "load", ran |-> TRUE, threw |-> FALSE,
                       cause |-> Cause,
                       before |-> [local |-> localStorage, session |-> sessionStorage],
                       pathname |-> location.pathname, loggedIn |-> loggedIn,
                       flagWasSet |-> alreadyRedirected(sessionStorage),
                       redirected |-> r.go]
             /\ IF r.go
                THEN /\ Navigate(r.href, NoParam)
                     /\ redirects' = Min(redirects + 1, MaxCount)
                ELSE /\ pc' = "ready"
                     /\ handlers' =
                          (IF loggedIn /\ HasElement(location.pathname, "login_link")
                           THEN {"logout"} ELSE {})
                          \cup (IF HasElement(location.pathname, "postAQuest")
                                THEN {"postAQuest"} ELSE {})
                          \cup PageHandlers(location.pathname)
                     /\ checkmark' \in
                          IF HasElement(location.pathname, "questForm")
                          THEN {"absent", "page"} ELSE {"absent"}
                     /\ inputType' = MarkupInputType(location.pathname)
                     /\ btnText' = MarkupBtnText(location.pathname)
                     /\ UNCHANGED <<location, msg, questFields, menuOpen, timer, redirects>>

-----------------------------------------------------------------------------
(* logout controls and the guarded link *)

\* what every logout control does: auth.logout(), then location.href = href;
\* when storage is unavailable auth.logout() throws and nothing follows
LogoutAndGo(via, href) ==
  /\ trip' = 0
  /\ UNCHANGED storageAvailable
  /\ IF storageAvailable
     THEN LET out == AuthLogout(localStorage, sessionStorage)
          IN /\ localStorage' = out.local
             /\ sessionStorage' = out.session
             /\ redirects' = 0
             /\ Navigate(href, NoParam)
             /\ ev' = [op |-> "logout", via |-> via, threw |-> FALSE,
                       before |-> [local |-> localStorage, session |-> sessionStorage]]
     ELSE /\ ev' = [op |-> "logout", via |-> via, threw |-> TRUE,
                    before |-> [local |-> localStorage, session |-> sessionStorage]]
          /\ menuOpen' = FALSE
          /\ UNCHANGED <<localStorage, sessionStorage, redirects, location, pc,
                         handlers, msg, questFields, checkmark, timer,
                         inputType, btnText>>

\* click on #login_link while it reads "Logout"
LogoutLinkClick ==
  /\ pc = "ready"
  /\ "logout" \in handlers
  /\ LogoutAndGo("login_link", routes.home)

\* click on #adminLogout
AdminLogoutClick ==
  /\ pc = "ready"
  /\ "adminLogout" \in handlers
  /\ LogoutAndGo("adminLogout", routes.home)

\* click on the profile menu's sign-out item
ProfileSignoutClick ==
  /\ pc = "ready"
  /\ "ProfileMenu" \in handlers
  /\ LogoutAndGo("ProfileSignout",
                 IF IncludesPages(location.pathname)
                 THEN <<"..", "..", "index.html">> ELSE <<"/", "index.html">>)

\* variant: the guard applies the logged-in state found when the page loaded
GuardInterceptsAsLoaded(local, bound) == "logout" \notin bound

\* the guard of the link: evaluated by the click handler, when it runs
GuardIntercepts(local, bound) == ~isLoggedIn(local)

\* click on #postAQuest, a link to the post-quest page
PostAQuestClick ==
  /\ pc = "ready"
  /\ "postAQuest" \in handlers
  /\ UNCHANGED <<storageAvailable, localStorage, sessionStorage, redirects>>
  /\ IF ~storageAvailable
     THEN \* the handler throws before preventDefault: the link is followed
          /\ Navigate(routes.post, NoParam)
          /\ ev' = [op |-> "postAQuest", threw |-> TRUE, prevented |-> FALSE]
          /\ trip' = 0
     ELSE IF GuardIntercepts(localStorage, handlers)
     THEN /\ Navigate(routes.login, Param(routes.post))
          /\ ev' = [op |-> "postAQuest", threw |-> FALSE, prevented |-> TRUE,
                    loggedIn |-> FALSE, asLoaded |-> "logout" \in handlers,
                    before |-> [local |-> localStorage, session |-> sessionStorage]]
          /\ trip' = 1
     ELSE /\ Navigate(routes.post, NoParam)
          /\ ev' = [op |-> "postAQuest", threw |-> FALSE, prevented |-> FALSE,
                    loggedIn |-> TRUE, asLoaded |-> "logout" \in handlers,
                    before |-> [local |-> localStorage, session |-> sessionStorage]]
          /\ trip' = 0

-----------------------------------------------------------------------------
(* login form *)

\* variant: the password is trimmed as well
LoginDecisionTrimsPassword(usernameField, passwordField) ==
  LET username == Trim(usernameField)
      password == Trim(passwordField)
  IN [username |-> username,
      outcome |-> IF ~Truthy(username) \/ ~Truthy(password) THEN "rejected"
                  ELSE IF username = AdminUser /\ password = AdminPass THEN "admin"
                  ELSE "user"]

\* variant: the password is not checked
LoginDecisionNoPasswordCheck(usernameField, passwordField) ==
  LET username == Trim(usernameField)
      password == passwordField
  IN [username |-> username,
      outcome |-> IF ~Truthy(username) THEN "rejected"
                  ELSE IF username = AdminUser /\ password = AdminPass THEN "admin"
                  ELSE "user"]

\* variant: no elevated pair
LoginDecisionNoAdmin(usernameField, passwordField) ==
  LET username == Trim(usernameField)
      password == passwordField
  IN [username |-> username,
      outcome |-> IF ~Truthy(username) \/ ~Truthy(password) THEN "rejected"
                  ELSE "user"]

\* the submit handler's reading of the two fields
LoginDecision(usernameField, passwordField) ==
  LET username == Trim(usernameField)
      password == passwordField
  IN [username |-> username,
      outcome |-> IF ~Truthy(username) \/ ~Truthy(password) THEN "rejected"
                  ELSE IF username = AdminUser /\ password = AdminPass THEN "admin"
                  ELSE "user"]

AdminWelcome == Message("Admin login successful! Redirecting...", "success")

LoginSubmit(usernameField, passwordField) ==
  /\ pc = "ready"
  /\ "login-form" \in handlers
  /\ UNCHANGED <<storageAvailable, sessionStorage, redirects>>
  /\ LET d == LoginDecision(usernameField, passwordField)
         in == [username |-> usernameField, password |-> passwordField,
                search |-> location.search, wasLoggedIn |-> isLoggedIn(localStorage),
                at |-> location,
                before |-> [local |-> localStorage, session |-> sessionStorage]]
     IN IF d.outcome = "rejected"
        THEN /\ msg' = Message("Please enter both username and password.", "error")
             /\ ev' = [op |-> "login", in |-> in, outcome |-> "rejected",
                       shown |-> msg', threw |-> FALSE]
             /\ trip' = 0
             /\ UNCHANGED localStorage
             /\ PageUnchanged
        ELSE IF ~storageAvailable
        THEN \* auth.login() throws; the admin branch has shown its message by then
             /\ msg' = (IF d.outcome = "admin" THEN AdminWelcome ELSE NoMsg)
             /\ ev' = [op |-> "login", in |-> in, outcome |-> "threw",
                       shown |-> msg', threw |-> TRUE]
             /\ trip' = 0
             /\ UNCHANGED localStorage
             /\ PageUnchanged
        ELSE IF d.outcome = "admin"
        THEN /\ localStorage' = AuthLogin(localStorage, [username |-> d.username])
             /\ Navigate(IF IncludesPagesAuth(location.pathname)
                         THEN <<"..", "..", "admin", "admin.html">>
                         ELSE <<"/", "admin", "admin.html">>, NoParam)
             /\ ev' = [op |-> "login", in |-> in, outcome |-> "admin",
                       shown |-> AdminWelcome, threw |-> FALSE]
             /\ trip' = 0
        ELSE LET returnUrl == location.search
                 questBoardPath == IF IncludesPagesAuth(location.pathname)
                                   THEN <<"..", "quests", "questBoard.html">>
                                   ELSE <<"/", "pages", "quests", "questBoard.html">>
             IN /\ localStorage' = AuthLogin(localStorage, [username |-> d.username])
                /\ Navigate(IF returnUrl.has /\ Truthy(returnUrl.val)
                            THEN returnUrl.val ELSE questBoardPath, NoParam)
                /\ ev' = [op |-> "login", in |-> in, outcome |-> "user",
                          shown |-> NoMsg, threw |-> FALSE]
                /\ trip' = (IF trip = 1 THEN 2 ELSE 0)

-----------------------------------------------------------------------------
(* signup form *)

MinPasswordLen == 6

SignupNameInputs == {<<>>, <<" ">>, <<"n">>}
SignupEmailInputs == {<<>>, <<" ">>, <<"e">>}

PwdLens == {0} \cup {n \in 1..MaxPwdLen : n >= MinPasswordLen - 1}

SignupPasswordInputs ==
  {Repeat("a", n) : n \in PwdLens}
    \cup {Repeat("a", n - 1) \o <<"b">> : n \in PwdLens \ {0}}
    \cup {<<" ">>}

SignupAccepted == Message("Account created! Redirecting to login...", "success")

\* variant: the length test is <= instead of <
SignupValidateOffByOne(nameField, emailField, password, confirmPassword) ==
  LET name == Trim(nameField)
      email == Trim(emailField)
  IN IF ~Truthy(name) \/ ~Truthy(email) \/ ~Truthy(password)
     THEN Message("All fields are required.", "error")
     ELSE IF Len(password) <= MinPasswordLen
     THEN Message("Password must be at least 6 characters.", "error")
     ELSE IF password # confirmPassword
     THEN Message("Passwords do not match.", "error")
     ELSE SignupAccepted

\* the message the submit handler shows
SignupValidate(nameField, emailField, password, confirmPassword) ==
  LET name == Trim(nameField)
      email == Trim(emailField)
  IN IF ~Truthy(name) \/ ~Truthy(email) \/ ~Truthy(password)
     THEN Message("All fields are required.", "error")
     ELSE IF Len(password) < MinPasswordLen
     THEN Message("Password must be at least 6 characters.", "error")
     ELSE IF password # confirmPassword
     THEN Message("Passwords do not match.", "error")
     ELSE SignupAccepted

SignupSubmit(nameField, emailField, password, confirmPassword) ==
  /\ pc = "ready"
  /\ "signupForm" \in handlers
  /\ msg' = SignupValidate(nameField, emailField, password, confirmPassword)
  /\ timer' = (timer \/ msg' = SignupAccepted)
  /\ ev' = [op |-> "signup", shown |-> msg',
            in |-> [name |-> nameField, email |-> emailField,
                    password |-> password, confirm |-> confirmPassword]]
  /\ trip' = 0
  /\ UNCHANGED <<storageAvailable, localStorage, sessionStorage, location, pc,
                 handlers, questFields, checkmark, menuOpen, inputType, btnText,
                 redirects>>

\* the setTimeout callback, 1000 ms after an accepted signup
SignupTimeout ==
  /\ pc = "ready"
  /\ timer
  /\ Navigate(<<"login.html">>, NoParam)
  /\ ev' = [op |-> "signupTimeout"]
  /\ trip' = 0
  /\ UNCHANGED <<storageAvailable, localStorage, sessionStorage, redirects>>

-----------------------------------------------------------------------------
(* quest-post form *)

QuestFieldNames == {"title", "budget", "description"}
QuestFieldInputs == {<<>>, <<" ">>, <<"q">>}

\* the user edits one field of the form
QuestInput(field, value) ==
  /\ pc = "ready"
  /\ HasElement(location.pathname, "questForm")
  /\ questFields[field] # value
  /\ questFields' = [questFields EXCEPT ![field] = value]
  /\ ev' = [op |-> "input"]
  /\ trip' = 0
  /\ UNCHANGED <<storageAvailable, localStorage, sessionStorage, location, pc,
                 handlers, msg, checkmark, menuOpen, timer, inputType, btnText,
                 redirects>>

\* clearMessages removes the message paragraph and what was moved into it
AfterClearMessages(mark) == IF mark = "message" THEN "detached" ELSE mark

\* variant: the values are tested untrimmed
QuestCompleteNoTrim(fields) ==
  ~(~Truthy(fields.title) \/ ~Truthy(fields.budget) \/ ~Truthy(fields.description))

\* all three trimmed values are non-empty
QuestComplete(fields) ==
  LET title == Trim(fields.title)
      budget == Trim(fields.budget)
      description == Trim(fields.description)
  IN ~(~Truthy(title) \/ ~Truthy(budget) \/ ~Truthy(description))

QuestSubmit ==
  /\ pc = "ready"
  /\ "questForm" \in handlers
  /\ trip' = 0
  /\ UNCHANGED <<storageAvailable, localStorage, sessionStorage, location, pc,
                 handlers, menuOpen, timer, inputType, btnText, redirects>>
  /\ LET mark == AfterClearMessages(checkmark)
     IN /\ IF ~QuestComplete(questFields)
           THEN /\ msg' = Message("Please complete all fields.", "error")
                /\ checkmark' = mark
                /\ UNCHANGED questFields
           ELSE /\ questFields' = DefaultQuestFields
                /\ IF mark = "page"
                   THEN /\ msg' = [Message("Quest submitted successfully!", "success")
                                     EXCEPT !.checkmark = TRUE]
                        /\ checkmark' = "message"
                   ELSE /\ msg' = Message("Quest submitted successfully!", "success")
                        /\ checkmark' = mark
        /\ ev' = [op |-> "quest", in |-> questFields, shown |-> msg',
                  before |-> [local |-> localStorage, session |-> sessionStorage]]

-----------------------------------------------------------------------------
(* profile menu *)

MenuClick(target, open) ==
  /\ pc = "ready"
  /\ "ProfileMenu" \in handlers
  /\ menuOpen' = open
  /\ ev' = [op |-> "click", target |-> target, wasOpen |-> menuOpen,
            before |-> [local |-> localStorage, session |-> sessionStorage]]
  /\ trip' = 0
  /\ UNCHANGED <<storageAvailable, localStorage, sessionStorage, location, pc,
                 handlers, msg, questFields, checkmark, timer, inputType, btnText,
                 redirects>>

\* variant: the trigger adds the class instead of toggling it
ProfileBtnClickOpensOnly == MenuClick("ProfileBtn", TRUE)

\* click on the trigger: toggles, and stops the event there
ProfileBtnClick == MenuClick("ProfileBtn", ~menuOpen)

\* click outside the menu and the trigger: the document handler closes the menu
OutsideClick == MenuClick("outside", FALSE)

\* click inside the menu, on none of its items: the document handler lets it be
MenuInsideClick == MenuClick("ProfileMenu", menuOpen)

MenuGo(target, href) ==
  /\ pc = "ready"
  /\ "ProfileMenu" \in handlers
  /\ Navigate(href, NoParam)
  /\ ev' = [op |-> "click", target |-> target, wasOpen |-> menuOpen,
            before |-> [local |-> localStorage, session |-> sessionStorage]]
  /\ trip' = 0
  /\ UNCHANGED <<storageAvailable, localStorage, sessionStorage, redirects>>

ProfileAccountClick ==
  MenuGo("ProfileAccount",
         IF IncludesPages(location.pathname)
         THEN <<"..", "dashboard", "accountSummary.html">>
         ELSE <<"/", "pages", "dashboard", "accountSummary.html">>)

ProfileSettingsClick ==
  MenuGo("ProfileSettings",
         IF IncludesPages(location.pathname)
         THEN <<"..", "dashboard", "settings.html">>
         ELSE <<"/", "pages", "dashboard", "settings.html">>)

Next ==
  \/ \E p \in SitePages, r \in ReturnParams : Visit(p, r)
  \/ PageLoad
  \/ LogoutLinkClick
  \/ AdminLogoutClick
  \/ ProfileSignoutClick
  \/ PostAQuestClick
  \/ \E u \in UsernameInputs, p \in LoginPasswordInputs : LoginSubmit(u, p)
  \/ \E n \in SignupNameInputs, e \in SignupEmailInputs,
        p \in SignupPasswordInputs, c \in SignupPasswordInputs : SignupSubmit(n, e, p, c)
  \/ SignupTimeout
  \/ \E f \in QuestFieldNames, v \in QuestFieldInputs : QuestInput(f, v)
  \/ QuestSubmit
  \/ ProfileBtnClick
  \/ OutsideClick
  \/ MenuInsideClick
  \/ ProfileAccountClick
  \/ ProfileSettingsClick

Spec == Init /\ [][Next]_vars

SpecEnv == InitEnv /\ [][Next]_vars

\* the handlers that read or write the stores or leave the page; the signup
\* form, which does neither before its timer, is left to Next
NextStores ==
  \/ \E p \in SitePages, r \in ReturnParams : Visit(p, r)
  \/ PageLoad
  \/ LogoutLinkClick
  \/ AdminLogoutClick
  \/ ProfileSignoutClick
  \/ PostAQuestClick
  \/ \E u \in UsernameInputs, p \in LoginPasswordInputs : LoginSubmit(u, p)
  \/ \E f \in QuestFieldNames, v \in QuestFieldInputs : QuestInput(f, v)
  \/ QuestSubmit
  \/ ProfileBtnClick
  \/ OutsideClick
  \/ MenuInsideClick
  \/ ProfileAccountClick
  \/ ProfileSettingsClick

-----------------------------------------------------------------------------
(* password toggles *)

\* variant: the click reveals the field and never masks it again
TogglePasswordRevealsOnly(type) == [type |-> "text", text |-> "Hide"]

\* what one click makes of the field's type and the button's text
TogglePassword(type) ==
  LET isPassword == type = "password"
  IN [type |-> IF isPassword THEN "text" ELSE "password",
      text |-> IF isPassword THEN "Hide" ELSE "Show"]

\* click on the .pwd-toggle button whose data-for is field
PwdToggleClick(field) ==
  /\ pc = "ready"
  /\ "pwd-toggle" \in handlers
  /\ field \in DOMAIN btnText
  /\ LET t == TogglePassword(inputType[field])
     IN /\ inputType' = [inputType EXCEPT ![field] = t.type]
        /\ btnText' = [btnText EXCEPT ![field] = t.text]
  /\ ev' = [op |-> "toggle", field |-> field,
            before |-> [type |-> inputType, text |-> btnText],
            prev |-> IF ev.op = "toggle"
                     THEN [field |-> ev.field, type |-> ev.before.type]
                     ELSE [field |-> "", type |-> NoToggles]]
  /\ UNCHANGED <<storageAvailable, localStorage, sessionStorage, location, pc,
                 handlers, msg, questFields, checkmark, menuOpen, timer,
                 redirects, trip>>

ToggleFields == {"password", "confirm-password"}

\* the toggles next to the handlers of NextStores; the signup form's submit
\* handler reads the fields' values, never their type
NextToggles ==
  \/ NextStores
  \/ \E f \in ToggleFields : PwdToggleClick(f)

SpecToggles == Init /\ [][NextToggles]_vars

-----------------------------------------------------------------------------
(* other tabs of the same browser: they run the same script on the same
   localStorage, each with a sessionStorage of its own.  The tab modelled
   above sees of them only what they write to localStorage. *)

OtherTabUsers == {Trim(u) : u \in UsernameInputs} \ {<<>>}

\* a login form is submitted in another tab
OtherTabLogin(username) ==
  /\ storageAvailable
  /\ localStorage' = AuthLogin(localStorage, [username |-> username])
  /\ ev' = [op |-> "otherTab", did |-> "login"]
  /\ UNCHANGED <<storageAvailable, sessionStorage, redirects, trip, msg>>
  /\ PageUnchanged

\* a logout control is clicked in another tab: the record goes, and with it
\* that tab's flag, not this one's
OtherTabLogout ==
  /\ storageAvailable
  /\ \E theirs \in {NoStorage, setItem(NoStorage, redirectKey, <<"1">>)} :
       localStorage' = AuthLogout(localStorage, theirs).local
  /\ redirects' = 0
  /\ ev' = [op |-> "otherTab", did |-> "logout"]
  /\ UNCHANGED <<storageAvailable, sessionStorage, trip, msg>>
  /\ PageUnchanged

NextTabs ==
  \/ NextStores
  \/ \E u \in OtherTabUsers : OtherTabLogin(u)
  \/ OtherTabLogout

SpecTabs == Init /\ [][NextTabs]_vars

-----------------------------------------------------------------------------
(* properties *)

PostQuestPage == <<"pages", "questgiver", "postquest.html">>
LoginPage == <<"pages", "auth", "login.html">>
AdminPage == <<"admin", "admin.html">>

LoadRan == ev.op = "load" /\ ev.ran /\ ~ev.threw

\* C1: between two consecutive logouts (or from the start of the session to
\* the first logout) redirectToQuestOnce navigates at most once; a load of a
\* non-excluded page by a logged-in user whose flag is unset redirects, and a
\* load with the flag set does not.
C1_RedirectAtMostOnce ==
  /\ redirects <= 1
  /\ (LoadRan /\ ev.loggedIn /\ ~ev.flagWasSet /\ ~RedirectExcluded(ev.pathname))
       => (ev.redirected /\ redirects = 1)
  /\ (LoadRan /\ ev.flagWasSet) => ~ev.redirected

\* the second of two non-excluded loads by a logged-in user: no redirect
C1_Witness ==
  /\ LoadRan /\ ev.loggedIn /\ ev.flagWasSet /\ ~RedirectExcluded(ev.pathname)
  /\ ~ev.redirected /\ redirects = 1

\* C2: a logged-out click on the guarded link is cancelled and leads to the
\* login page with return = the post-quest page; the login that follows
\* forwards to that target; and once the target's page load has run the user
\* is at rest on the post-quest page.
C2_GuardedRoundTrip ==
  /\ (ev.op = "postAQuest" /\ ~ev.threw /\ ~ev.loggedIn)
       => /\ ev.prevented
          /\ location = [pathname |-> LoginPage, search |-> Param(routes.post)]
  /\ trip = 2 => (location.pathname = PostQuestPage /\ pc = "loading")
  /\ trip = 3 => (location.pathname = PostQuestPage /\ pc = "ready" /\ ~ev.redirected)

\* C3: isLoggedIn() is true right after a login that went through and false
\* right after a logout.
C3_LoggedInAfterLoginOnly ==
  /\ (ev.op = "login" /\ ev.outcome \in {"admin", "user"}) => isLoggedIn(localStorage)
  /\ (ev.op = "logout" /\ ~ev.threw) => ~isLoggedIn(localStorage)

\* a logout of a session that an earlier login of this tab created
C3_Witness ==
  /\ ev.op = "logout" /\ ~ev.threw
  /\ isLoggedIn(ev.before.local)
  /\ ev.before.local[storageKey] # JSONstringify([username |-> <<"b">>])
  /\ ~isLoggedIn(localStorage)

LoginShownNoError == ev.shown.type # "error"

C6_StorageUnavailableDegrades ==
  (~storageAvailable /\ ev.op = "load" /\ ev.ran)
    => /\ ~ev.threw
       /\ ~ev.redirected
       /\ "postAQuest" \in handlers
       /\ "logout" \notin handlers

\* C7: every logout control removes the persisted user and the redirect
\* flag; in a state with neither it changes nothing; logout twice is logout
\* once.
C7_LogoutClearsIdempotent ==
  /\ (ev.op = "logout" /\ ~ev.threw)
       => /\ ev.via \in {"login_link", "adminLogout", "ProfileSignout"}
          /\ ~hasItem(localStorage, storageKey)
          /\ ~hasItem(sessionStorage, redirectKey)
          /\ (~hasItem(ev.before.local, storageKey)
                /\ ~hasItem(ev.before.session, redirectKey))
               => (localStorage = ev.before.local /\ sessionStorage = ev.before.session)
  /\ LET once == AuthLogout(localStorage, sessionStorage)
     IN /\ AuthLogout(once.local, once.session) = once
        /\ (~hasItem(localStorage, storageKey) /\ ~hasItem(sessionStorage, redirectKey))
             => once = [local |-> localStorage, session |-> sessionStorage]

\* the profile menu's sign-out, with a session and a set flag before it
C7_Witness ==
  /\ ev.op = "logout" /\ ev.via = "ProfileSignout"
  /\ hasItem(ev.before.local, storageKey)
  /\ hasItem(ev.before.session, redirectKey)
  /\ localStorage = NoStorage /\ sessionStorage = NoStorage

SignupIn(f) == Truthy(ev.in[f])
SignupInTrimmed(f) == Truthy(Trim(ev.in[f]))
SignupShows(text) == ev.shown.type = "error" /\ ev.shown.text = text

\* C8 as stated: the outcome is the first failure of: name, email or
\* password empty; password shorter than 6; password differs from confirm.
C8_AsStatedSignup ==
  ev.op = "signup" =>
    IF ~SignupIn("name") \/ ~SignupIn("email") \/ ~SignupIn("password")
    THEN SignupShows("All fields are required.")
    ELSE IF Len(ev.in.password) < 6
    THEN SignupShows("Password must be at least 6 characters.")
    ELSE IF ev.in.password # ev.in.confirm
    THEN SignupShows("Passwords do not match.")
    ELSE ev.shown.type = "success" /\ timer

\* C8 amended: the same, with name and email empty once surrounding
\* whitespace is removed (the password is taken as typed).
C8_FirstFailureWins ==
  ev.op = "signup" =>
    IF ~SignupInTrimmed("name") \/ ~SignupInTrimmed("email") \/ ~SignupIn("password")
    THEN SignupShows("All fields are required.")
    ELSE IF Len(ev.in.password) < 6
    THEN SignupShows("Password must be at least 6 characters.")
    ELSE IF ev.in.password # ev.in.confirm
    THEN SignupShows("Passwords do not match.")
    ELSE ev.shown.type = "success" /\ timer

\* a 5-character password with a different confirmation: only the length
\* message is shown
C8_Witness ==
  /\ ev.op = "signup"
  /\ SignupInTrimmed("name") /\ SignupInTrimmed("email")
  /\ Len(ev.in.password) = 5 /\ ev.in.password # ev.in.confirm
  /\ SignupShows("Password must be at least 6 characters.")

QuestBlank(f) == Trim(ev.in[f]) = <<>>

\* C9: a quest-post submission with a blank field shows an error and leaves
\* all three fields as they were; with all three filled it clears them and
\* shows a success message; neither changes the session store or the flag.
C9_QuestSubmit ==
  ev.op = "quest" =>
    /\ IF \E f \in QuestFieldNames : QuestBlank(f)
       THEN msg.type = "error" /\ questFields = ev.in
       ELSE msg.type = "success" /\ \A f \in QuestFieldNames : questFields[f] = <<>>
    /\ localStorage = ev.before.local
    /\ sessionStorage = ev.before.session

\* one field blank (a space), the other two filled: error, nothing cleared
C9_Witness ==
  /\ ev.op = "quest"
  /\ ev.in = [title |-> <<"q">>, budget |-> <<" ">>, description |-> <<"q">>]
  /\ msg.type = "error"
  /\ questFields = ev.in

\* C10: what a submission displays depends only on the field values and on
\* whether the page has the checkmark element: an error when a field is
\* blank, else the success message, preceded by the checkmark on a page that
\* has one.
C10_ResubmissionSame ==
  ev.op = "quest" =>
    IF \E f \in QuestFieldNames : QuestBlank(f)
    THEN ev.shown = Message("Please complete all fields.", "error")
    ELSE ev.shown = [type |-> "success", text |-> "Quest submitted successfully!",
                     checkmark |-> (checkmark # "absent")]

QuestBoardPage == <<"pages", "quests", "questBoard.html">>

\* C13: redirectToQuestOnce sets the flag and navigates to the quest board
\* exactly when the user is logged in, the flag is unset and the page is
\* neither the quest board nor the admin page; otherwise it leaves the session
\* record, the flag and the current page as they are, so a load of an
\* excluded page by a logged-in user does not consume the flag.
C13_RedirectExactlyWhen ==
  LoadRan =>
    /\ ev.redirected <=>
         (/\ hasItem(ev.before.local, storageKey)
          /\ ~(hasItem(ev.before.session, redirectKey)
                 /\ ev.before.session[redirectKey] = <<"1">>)
          /\ CurrentPage(ev.pathname) \notin {"questBoard.html", "admin.html"})
    /\ localStorage = ev.before.local
    /\ ev.redirected =>
         /\ hasItem(sessionStorage, redirectKey) /\ sessionStorage[redirectKey] = <<"1">>
         /\ pc = "loading"
         /\ location.pathname = QuestBoardPage
    /\ ~ev.redirected =>
         /\ sessionStorage = ev.before.session
         /\ location.pathname = ev.pathname

C15_ProfileMenu ==
  /\ ev.op = "click" =>
       /\ ev.target = "ProfileBtn" => menuOpen = ~ev.wasOpen
       /\ ev.target = "outside" => ~menuOpen
       /\ ev.target = "ProfileMenu" => menuOpen = ev.wasOpen
       /\ ev.target \in {"ProfileAccount", "ProfileSettings"} => ~menuOpen
       /\ localStorage = ev.before.local
       /\ sessionStorage = ev.before.session
  /\ (ev.op = "logout" /\ ev.via = "ProfileSignout") => ~menuOpen

\* the trigger clicked while the menu is open: it closes
C15_Witness ==
  /\ ev.op = "click" /\ ev.target = "ProfileBtn"
  /\ ev.wasOpen /\ ~menuOpen

\* C12 as stated: a click on the guarded link is intercepted or let through
\* according to the logged-in state found when the page was loaded, whatever
\* another tab has written to the shared store since.
C12_GuardAsOfLoad ==
  (ev.op = "postAQuest" /\ ~ev.threw) => (ev.prevented <=> ~ev.asLoaded)

\* C12 amended: a click on the guarded link is intercepted or let through
\* according to the session record present when the click happens, whatever
\* the state was when the page was loaded; intercepted, it goes to the login
\* page with the return parameter, otherwise to the post-quest page.
C12_GuardAsOfClick ==
  (ev.op = "postAQuest" /\ ~ev.threw) =>
    /\ ev.prevented <=> ~hasItem(ev.before.local, storageKey)
    /\ location = IF ev.prevented
                  THEN [pathname |-> LoginPage, search |-> Param(routes.post)]
                  ELSE [pathname |-> PostQuestPage, search |-> NoParam]
    /\ localStorage = ev.before.local /\ sessionStorage = ev.before.session

\* the page was loaded logged in, another tab has logged out since, and the
\* click is intercepted
C12_Witness ==
  /\ ev.op = "postAQuest" /\ ~ev.threw
  /\ ev.asLoaded /\ ev.prevented
  /\ location.pathname = LoginPage

\* C16: in every reachable state the tab's redirect flag is set only if a
\* session record exists, and a logged-in load of a non-excluded page finds a
\* redirect made since the last logout (this one or an earlier one).
C16_FlagOnlyWithSession ==
  /\ hasItem(sessionStorage, redirectKey) => hasItem(localStorage, storageKey)
  /\ (LoadRan /\ ev.loggedIn
        /\ CurrentPage(ev.pathname) \notin {"questBoard.html", "admin.html"})
       => redirects >= 1

\* C11: a click on the toggle of a masked field makes the field plaintext and
\* the button read Hide; a click on the toggle of a plaintext field masks it
\* and makes the button read Show; two clicks in a row on one toggle leave the
\* field's type as it was; and the click changes neither the type of any other
\* field nor the text of any other toggle.
C11_PasswordToggle ==
  ev.op = "toggle" =>
    /\ ev.before.type[ev.field] = "password" =>
         (inputType[ev.field] = "text" /\ btnText[ev.field] = "Hide")
    /\ ev.before.type[ev.field] = "text" =>
         (inputType[ev.field] = "password" /\ btnText[ev.field] = "Show")
    /\ ev.prev.field = ev.field => inputType[ev.field] = ev.prev.type[ev.field]
    /\ \A g \in DOMAIN inputType \ {ev.field} :
         inputType[g] = ev.before.type[g] /\ btnText[g] = ev.before.text[g]

\* the second of two clicks on one toggle, the other field being revealed
C11_Witness ==
  /\ ev.op = "toggle" /\ ev.prev.field = ev.field
  /\ inputType[ev.field] = "password" /\ btnText[ev.field] = "Show"
  /\ \E g \in DOMAIN inputType \ {ev.field} :
       inputType[g] = "text" /\ btnText[g] = "Hide"

=============================================================================
